---- MODULE Spec2Model ----
(***************************************************************************)
(* A model of the two classes of the repository:                           *)
(*   LogisticRegression (src/logistic_regression.py) and                   *)
(*   OneHiddenLayerNN   (src/one_hidden_layer_nn.py).                      *)
(*                                                                         *)
(* Spec     one instance of each class, driven by a single-threaded caller *)
(*          through fit / predict_prob / predict.  The training loops are  *)
(*          modelled statement by statement (one action per loop step);    *)
(*          row selection (slicing) is concrete; floating-point weights    *)
(*          are symbolic terms that record how they were computed.         *)
(* SpecNum  the numeric core of OneHiddenLayerNN with relu activations on  *)
(*          integer matrices, where the arithmetic of the code is exact.   *)
(***************************************************************************)
EXTENDS Integers, Sequences, FiniteSets, TLC

\* ------------------------------------------------------------- bounds
\* Largest number of training examples (rows of X) passed to fit.
MaxN == 3
\* Largest batch_size given to the OneHiddenLayerNN constructor.
MaxBatch == 2
\* Largest number of features (columns of X).
MaxFeat == 1
\* Largest "small" iteration / epoch count given to a constructor; the
\* constructors are also given one count just past the diagnostic period.
MaxIters == 1
\* Number of distinct outcomes of a np.random.randn draw.
NumDraws == 1
\* Number of distinct inputs handed to predict_prob / predict.
NumInputs == 3
\* Largest number of columns (classes) of the y of OneHiddenLayerNN.fit.
MaxClasses == 2

\* `if i % 100 == 0` of LogisticRegression.fit and OneHiddenLayerNN.fit.
LR_LOSS_EVERY == 100
NN_LOSS_EVERY == 100

VARIABLES
    lr,     \* the LogisticRegression instance: W, num_iters, alpha
    nn,     \* the OneHiddenLayerNN instance: W_h, W_out and hyperparameters
    frame,  \* the locals of the call in progress (op = "idle": none)
    out,    \* what the caller observed: the running or last completed call, its
            \* return value, and the loss lines printed by the last fit
    num     \* the state of SpecNum (constant under Spec)

vars == <<lr, nn, frame, out, num>>

\* ------------------------------------------------------------ helpers
Min(a, b) == IF a < b THEN a ELSE b
Max(a, b) == IF a > b THEN a ELSE b

\* Python's None.
NoneVal == [none |-> TRUE]

\* No call in progress.
Idle == [op |-> "idle"]

\* range(n) as the sequence <<0, ..., n-1>> (empty for n <= 0).
PyRange(n) == [k \in 1..n |-> k - 1]

\* Normalisation of a slice bound against a length, as Python's
\* slice.indices does for step 1: a negative bound counts from the end and
\* is clipped to 0, a bound past the end is clipped to the length.
PyIndex(k, len) == IF k < 0 THEN Max(k + len, 0) ELSE Min(k, len)

\* s[start:stop]
PySlice(s, start, stop) ==
    LET a == PyIndex(start, Len(s))
        b == PyIndex(stop, Len(s))
    IN  [k \in 1..Max(b - a, 0) |-> s[a + k]]

\* s[start:]
PySliceFrom(s, start) ==
    LET a == PyIndex(start, Len(s))
    IN  [k \in 1..(Len(s) - a) |-> s[a + k]]

\* The iteration counts a constructor is given.
IterChoices(period) == (0..MaxIters) \cup {period + 1}

(***************************************************************************)
(* Symbolic arrays.  A training or prediction input is an array known by   *)
(* name: [id, ndim, rows, cols] where rows is the sequence of the          *)
(* (0-based) row numbers of the named array that it holds, so that slicing *)
(* is concrete.  A 1-D array (ndim = 1) has no cols.                       *)
(***************************************************************************)
\* A 2-D array of shape (n, cols).
Array(id, n, cols) == [id |-> id, ndim |-> 2, rows |-> PyRange(n), cols |-> cols]

\* A 1-D array of shape (n,).
Vector(id, n) == [id |-> id, ndim |-> 1, rows |-> PyRange(n)]

\* A.shape
Shape(A) == IF A.ndim = 1 THEN <<Len(A.rows)>> ELSE <<Len(A.rows), A.cols>>

\* The shape of no array: the operands do not fit.
NoShape == <<-1>>

\* A shape padded on the left with 1s to length n.
PadShape(s, n) == [k \in 1..n |-> IF k <= n - Len(s) THEN 1 ELSE s[k - (n - Len(s))]]

\* numpy's broadcasting of two shapes: aligned on the right, two lengths
\* fit when they are equal or one of them is 1.
Broadcast(s, t) ==
    LET n == Max(Len(s), Len(t))
        a == PadShape(s, n)
        b == PadShape(t, n)
    IN  IF s = NoShape \/ t = NoShape THEN NoShape
        ELSE IF \A k \in 1..n : a[k] = b[k] \/ a[k] = 1 \/ b[k] = 1
        THEN [k \in 1..n |-> IF a[k] = 1 THEN b[k] ELSE a[k]]
        ELSE NoShape

\* The shape of np.dot(A, B) for a 2-D A of shape s and a 1-D or 2-D B of
\* shape t: the last length of A must be the first of B.
DotShape(s, t) ==
    IF s = NoShape \/ t = NoShape \/ s[2] # t[1] THEN NoShape
    ELSE IF Len(t) = 1 THEN <<s[1]>> ELSE <<s[1], t[2]>>

\* __add_bias of both classes: one column of ones is prepended.
add_bias(X) == [X EXCEPT !.cols = @ + 1, !.id = <<"bias", @>>]

\* np.zeros(shape): a weight term with no update applied.
zeros(shape) == [shape |-> shape, init |-> "zeros", steps |-> <<>>]

\* np.random.randn(rows, cols) * np.sqrt(2.0 / rows): draw d of NumDraws.
randn_he(rows, cols, d) ==
    [shape |-> <<rows, cols>>, init |-> <<"randn", d>>, steps |-> <<>>]

(***************************************************************************)
(* W -= g(by): the weight term after one more in-place update whose        *)
(* gradient was computed from `by` (the arrays and the learning rate).     *)
(* The updates are kept run-length encoded: <<[by, k], ...>> is k updates  *)
(* from the same operands, then the next run.                              *)
(***************************************************************************)
Updated(W, by) ==
    LET n == Len(W.steps)
    IN  IF n > 0 /\ W.steps[n].by = by
        THEN [W EXCEPT !.steps[n].k = @ + 1]
        ELSE [W EXCEPT !.steps = Append(@, [by |-> by, k |-> 1])]

RECURSIVE SumK(_)
SumK(steps) ==
    IF steps = <<>> THEN 0 ELSE steps[1].k + SumK(Tail(steps))

\* The number of in-place updates a weight term has received.
Updates(W) == SumK(W.steps)


\* =================================================================
\*                        LogisticRegression
\* =================================================================

\* __init__: W = np.zeros((1, 1)), the hyperparameters as given.
LR_init(number_of_iterations, learning_rate) ==
    [W |-> zeros(<<1, 1>>),
     num_iters |-> number_of_iterations,
     alpha |-> learning_rate]

\* (variant) fit keeps weights of the right shape instead of zeroing them.
LR_fit_enter_warm(self, X) ==
    IF self.W.shape = <<add_bias(X).cols>> THEN self
    ELSE [self EXCEPT !.W = zeros(<<add_bias(X).cols>>)]

\* The first two statements of fit: X = add_bias(X); W = np.zeros(X.shape[1]).
\* The weights the instance held before are not read.
LR_fit_enter(self, X) ==
    [self EXCEPT !.W = zeros(<<add_bias(X).cols>>)]

\* (variant) the loop stops one iteration early.
LR_in_range_short(i, num_iters) == i + 1 < num_iters

\* `for i in range(self.num_iters)`: whether the loop body runs for i.
LR_in_range(i, num_iters) == i < num_iters

\* The shape of `gradient` in fit: z = np.dot(X, W) and y_hat have shape
\* (n,); y_hat - y broadcasts against y; __d_loss is
\* np.dot(X.T, y_hat - y) / y.size.
LR_gradient_shape(self, X, y) ==
    LET n == Len(X.rows)
        z == DotShape(Shape(X), self.W.shape)
        diff == Broadcast(z, Shape(y))
    IN  DotShape(<<X.cols, n>>, diff)

\* One gradient step of fit: z, y_hat and gradient are computed from the
\* current W, X and y, then W -= alpha * gradient, in place: the gradient
\* must broadcast to the shape of W, or the statement raises ValueError and
\* leaves W as it is.  Returns <<self, exception or None>>.
LR_fit_step(self, X, y) ==
    LET g == LR_gradient_shape(self, X, y)
    IN  IF g # NoShape /\ Broadcast(self.W.shape, g) = self.W.shape
        THEN <<[self EXCEPT !.W = Updated(@, [X |-> X.id, y |-> y.id,
                                              alpha |-> self.alpha])],
               NoneVal>>
        ELSE <<self, [raise |-> "ValueError"]>>

\* `if i % 100 == 0`: whether iteration i emits the loss.
LR_loss_due(i) == i % LR_LOSS_EVERY = 0

\* The diagnostic of fit: z and y_hat (locals) are recomputed from W and the
\* loss is printed; nothing of the instance is assigned.
LR_fit_diag(self, X, y) == self

\* np.dot(X, W) is defined when the columns of X match the rows of W.
LR_dot_ok(X, W) == X.cols = W.shape[1]

\* predict_prob: sigmoid(np.dot(X, W)) as a term over the input and the
\* weights, or the exception np.dot raises.  Returns <<self, value>>.
LR_predict_prob(self, X) ==
    <<self,
      IF LR_dot_ok(X, self.W)
      THEN [f |-> "sigmoid(dot)", X |-> X.id, n |-> Len(X.rows), W |-> self.W]
      ELSE [raise |-> "ValueError"]>>

\* predict: predict_prob(X) >= threshold.  Returns <<self, value>>.
LR_predict(self, X, threshold) ==
    LET r == LR_predict_prob(self, X)
    IN  <<r[1],
          IF "raise" \in DOMAIN r[2] THEN r[2]
          ELSE [f |-> ">=", a |-> r[2], threshold |-> threshold]>>

\* =================================================================
\*                         OneHiddenLayerNN
\* =================================================================

\* __init__: W_h = W_out = None, the hyperparameters as given.
NN_init(number_of_neurons, batch_size, hidden_activation, out_activation, epochs, learning_rate) ==
    [nn_size |-> number_of_neurons,
     epochs |-> epochs,
     alpha |-> learning_rate,
     W_h |-> NoneVal,
     W_out |-> NoneVal,
     batch_size |-> batch_size,
     hidden_func |-> hidden_activation,
     out_func |-> out_activation]

\* The weight initialisation of fit: both matrices are drawn anew.
NN_fit_enter(self, X, y, d) ==
    [self EXCEPT
        !.W_h = randn_he(add_bias(X).cols, self.nn_size, d),
        !.W_out = randn_he(self.nn_size + 1, y.cols, d)]

\* (variant) the batch count is rounded up instead of truncated.
NN_batch_iters_ceil(n, batch_size) == (n + batch_size - 1) \div batch_size

\* batch_iters = int(X.shape[0] / self.batch_size)   (n >= 0, batch_size >= 1)
NN_batch_iters(n, batch_size) == n \div batch_size

\* batch_rem = X.shape[0] - self.batch_size * batch_iters
NN_batch_rem(n, batch_size) == n - batch_size * NN_batch_iters(n, batch_size)

\* (variant) the batch stops one row early.
NN_batch_short(X, j, batch_size) ==
    [X EXCEPT !.rows = PySlice(@, j * batch_size, (j + 1) * batch_size - 1)]

\* X[j * batch_size : (j + 1) * batch_size, :]
NN_batch(X, j, batch_size) ==
    [X EXCEPT !.rows = PySlice(@, j * batch_size, (j + 1) * batch_size)]

\* (variant) X[batch_rem:], the sign of the bound dropped.
NN_rem_batch_from(X, batch_rem) ==
    [X EXCEPT !.rows = PySliceFrom(@, batch_rem)]

\* (variant) exactly the last batch_rem rows, none when batch_rem is 0.
NN_rem_batch_strict(X, batch_rem) ==
    [X EXCEPT !.rows = PySlice(@, Len(@) - batch_rem, Len(@))]

\* X[-batch_rem:]
NN_rem_batch(X, batch_rem) ==
    [X EXCEPT !.rows = PySliceFrom(@, -batch_rem)]

\* __forward_backward_prop on symbolic weights: d_out and d_hidden are
\* computed from the batch and the weights, then W_out -= d_out and
\* W_h -= d_hidden.  (SpecNum carries out the arithmetic.)
NN_forward_backward_prop(self, X, y) ==
    LET by == [X |-> X.id, y |-> y.id, alpha |-> self.alpha]
    IN  [self EXCEPT !.W_out = Updated(@, by), !.W_h = Updated(@, by)]

\* `if i % 100 == 0`: whether epoch i emits the loss.
NN_loss_due(i) == i % NN_LOSS_EVERY = 0

\* (variant) predict_prob works on the weights in place.
NN_predict_prob_inplace(self, X) ==
    <<IF self.W_h = NoneVal THEN self
      ELSE [self EXCEPT !.W_h = Updated(@, [X |-> X.id, y |-> X.id, alpha |-> self.alpha])],
      IF self.W_h = NoneVal THEN [raise |-> "TypeError"]
      ELSE IF X.cols # self.W_h.shape[1] THEN [raise |-> "ValueError"]
      ELSE [f |-> "forward", X |-> X.id, n |-> Len(X.rows),
            W_h |-> self.W_h, W_out |-> self.W_out,
            hidden_func |-> self.hidden_func, out_func |-> self.out_func]>>

\* predict_prob: the forward pass as a term over the input and the weights,
\* or the exception np.dot raises.  Returns <<self, value>>.
NN_predict_prob(self, X) ==
    <<self,
      IF self.W_h = NoneVal THEN [raise |-> "TypeError"]
      ELSE IF X.cols # self.W_h.shape[1] THEN [raise |-> "ValueError"]
      ELSE [f |-> "forward", X |-> X.id, n |-> Len(X.rows),
            W_h |-> self.W_h, W_out |-> self.W_out,
            hidden_func |-> self.hidden_func, out_func |-> self.out_func]>>

\* (variant) the diagnostic runs a training step on the whole set.
NN_fit_diag_trains(self, X, y) == NN_forward_backward_prop(self, X, y)

\* The diagnostic of fit: a_o = self.predict_prob(X); print(loss(a_o, y)).
NN_fit_diag(self, X, y) == NN_predict_prob(self, X)[1]

\* max(a_o), the builtin over the rows of an array of shape (n, classes):
\* it raises ValueError for no row, and for two or more rows of other than
\* one element (the comparison of two rows has no truth value).
NN_max_ok(n, classes) == n >= 1 /\ (n = 1 \/ classes = 1)

\* predict: prints the result of the search for the maximum of
\* predict_prob(X) and returns None, or raises what predict_prob or max
\* raises.  (SpecNum carries out the search.)
NN_predict(self, X) ==
    LET r == NN_predict_prob(self, X)
    IN  <<r[1],
          IF "raise" \in DOMAIN r[2] THEN r[2]
          ELSE IF ~NN_max_ok(r[2].n, self.W_out.shape[2]) THEN [raise |-> "ValueError"]
          ELSE NoneVal>>

\* =================================================================
\*                  Spec: the caller and the two instances
\* =================================================================

\* Training sets: LogisticRegression is fitted on sets that differ in their
\* number of features, OneHiddenLayerNN on sets that differ in their number
\* of examples.
LRTrainX == {Array(<<"X", MaxN, f>>, MaxN, f) : f \in 1..MaxFeat}
NNTrainX == {Array(<<"X", n, 1>>, n, 1) : n \in 1..MaxN}

\* The y of LogisticRegression.fit: of shape (n,) or of shape (n, 1).
LRTargets(X) ==
    {Vector(<<"y", X.id>>, Len(X.rows)), Array(<<"y", X.id>>, Len(X.rows), 1)}

\* The y of OneHiddenLayerNN.fit: of shape (n, classes).
NNTargets(X) ==
    {Array(<<"y", X.id, c>>, Len(X.rows), c) : c \in 1..MaxClasses}

\* Inputs of predict_prob / predict, already bias-augmented: of shape
\* (1, 2), (2, 2), (1, 3), (2, 3), ... in this order.
PredictX ==
    {Array(<<"P", k>>, 1 + ((k - 1) % 2), 2 + ((k - 1) \div 2)) : k \in 1..NumInputs}

\* The state of SpecNum's variable under Spec.
NumOff == [pc |-> "off"]

Init ==
    /\ lr \in {LR_init(k, "0.1") : k \in IterChoices(LR_LOSS_EVERY)}
    /\ nn \in {NN_init(1, b, "relu", "sigmoid", e, "0.1") :
                  b \in 1..MaxBatch, e \in IterChoices(NN_LOSS_EVERY)}
    /\ frame = Idle
    /\ out = [last |-> [op |-> "new"], loss |-> <<>>]
    /\ num = NumOff

\* The record of a completed call: its name, arguments and return value
\* (or the exception it raised).
Returned(op, args, value) == [op |-> op, args |-> args, ret |-> value]

\* The record of a call of fit that has not ended yet; warm tells whether
\* the instance came to the call with weights that an earlier fit updated.
Called(op, args, warm) ==
    [op |-> op, args |-> args, ret |-> [running |-> TRUE], warm |-> warm]

\* ---- LogisticRegression.fit
LRFitCall ==
    /\ frame = Idle
    /\ \E X \in LRTrainX :
         \E y \in LRTargets(X) :
            /\ lr' = LR_fit_enter(lr, X)
            /\ frame' = [op |-> "LR.fit", pc |-> "for", i |-> 0,
                         X |-> add_bias(X), y |-> y]
            /\ out' = [last |-> Called("LR.fit", [X |-> add_bias(X), y |-> y],
                                       Updates(lr.W) > 0),
                       loss |-> <<>>]
    /\ UNCHANGED <<nn, num>>

\* One pass of the loop body up to the `if`; an exception of the update
\* ends the call and reaches the caller.
LRFitStep ==
    /\ frame.op = "LR.fit" /\ frame.pc = "for"
    /\ LR_in_range(frame.i, lr.num_iters)
    /\ LET r == LR_fit_step(lr, frame.X, frame.y)
       IN  /\ lr' = r[1]
           /\ IF r[2] = NoneVal
              THEN /\ frame' = IF LR_loss_due(frame.i)
                               THEN [frame EXCEPT !.pc = "diag"]
                               ELSE [frame EXCEPT !.i = @ + 1]
                   /\ out' = out
              ELSE /\ frame' = Idle
                   /\ out' = [out EXCEPT !.last =
                                 Returned("LR.fit", [X |-> frame.X, y |-> frame.y], r[2])]
    /\ UNCHANGED <<nn, num>>

LRFitDiag ==
    /\ frame.op = "LR.fit" /\ frame.pc = "diag"
    /\ lr' = LR_fit_diag(lr, frame.X, frame.y)
    /\ out' = [out EXCEPT !.loss = Append(@, frame.i)]
    /\ frame' = [frame EXCEPT !.pc = "for", !.i = @ + 1]
    /\ UNCHANGED <<nn, num>>

LRFitReturn ==
    /\ frame.op = "LR.fit" /\ frame.pc = "for"
    /\ ~LR_in_range(frame.i, lr.num_iters)
    /\ out' = [out EXCEPT !.last = Returned("LR.fit", [X |-> frame.X, y |-> frame.y], NoneVal)]
    /\ frame' = Idle
    /\ UNCHANGED <<lr, nn, num>>

\* ---- LogisticRegression.predict_prob / predict
LRPredictProb ==
    /\ frame = Idle
    /\ \E X \in PredictX :
         LET r == LR_predict_prob(lr, X)
         IN  /\ lr' = r[1]
             /\ out' = [out EXCEPT !.last = Returned("LR.predict_prob", [X |-> X], r[2])]
    /\ UNCHANGED <<nn, frame, num>>

LRPredict ==
    /\ frame = Idle
    /\ \E X \in PredictX :
         LET r == LR_predict(lr, X, "0.5")
         IN  /\ lr' = r[1]
             /\ out' = [out EXCEPT !.last = Returned("LR.predict", [X |-> X], r[2])]
    /\ UNCHANGED <<nn, frame, num>>

\* ---- OneHiddenLayerNN.fit
NNFitCall ==
    /\ frame = Idle
    /\ \E X \in NNTrainX, d \in 1..NumDraws :
       \E y \in NNTargets(X) :
         LET n == Len(X.rows)
         IN  /\ nn' = NN_fit_enter(nn, X, y, d)
             /\ frame' = [op |-> "NN.fit", pc |-> "epoch", i |-> 0, j |-> 0,
                          X |-> add_bias(X), y |-> y,
                          batch_iters |-> NN_batch_iters(n, nn.batch_size),
                          batch_rem |-> NN_batch_rem(n, nn.batch_size),
                          trace |-> <<>>]
             /\ out' = [last |-> Called("NN.fit", [X |-> add_bias(X), y |-> y],
                                        nn.W_h # NoneVal /\ Updates(nn.W_h) > 0),
                        loss |-> <<>>]
    /\ UNCHANGED <<lr, num>>

\* `for i in range(self.epochs)`: epoch i begins.  frame.trace lists the
\* row numbers of each batch handed to __forward_backward_prop in the epoch.
NNEpochBegin ==
    /\ frame.op = "NN.fit" /\ frame.pc = "epoch"
    /\ frame.i < nn.epochs
    /\ frame' = [frame EXCEPT !.pc = "batch", !.j = 0, !.trace = <<>>]
    /\ UNCHANGED <<lr, nn, out, num>>

\* One pass of `for j in range(batch_iters)`.
NNBatchStep ==
    /\ frame.op = "NN.fit" /\ frame.pc = "batch"
    /\ frame.j < frame.batch_iters
    /\ LET x_batch == NN_batch(frame.X, frame.j, nn.batch_size)
           y_batch == NN_batch(frame.y, frame.j, nn.batch_size)
       IN  /\ nn' = NN_forward_backward_prop(nn, x_batch, y_batch)
           /\ frame' = [frame EXCEPT !.j = @ + 1,
                                     !.trace = Append(@, x_batch.rows)]
    /\ UNCHANGED <<lr, out, num>>

\* The statements after the inner loop: the remainder batch.
NNRemStep ==
    /\ frame.op = "NN.fit" /\ frame.pc = "batch"
    /\ ~(frame.j < frame.batch_iters)
    /\ LET x_batch == NN_rem_batch(frame.X, frame.batch_rem)
           y_batch == NN_rem_batch(frame.y, frame.batch_rem)
       IN  /\ nn' = NN_forward_backward_prop(nn, x_batch, y_batch)
           /\ frame' = IF NN_loss_due(frame.i)
                       THEN [frame EXCEPT !.pc = "diag",
                                          !.trace = Append(@, x_batch.rows)]
                       ELSE [frame EXCEPT !.pc = "epoch", !.i = @ + 1,
                                          !.trace = Append(@, x_batch.rows)]
    /\ UNCHANGED <<lr, out, num>>

NNFitDiag ==
    /\ frame.op = "NN.fit" /\ frame.pc = "diag"
    /\ nn' = NN_fit_diag(nn, frame.X, frame.y)
    /\ out' = [out EXCEPT !.loss = Append(@, frame.i)]
    /\ frame' = [frame EXCEPT !.pc = "epoch", !.i = @ + 1]
    /\ UNCHANGED <<lr, num>>

NNFitReturn ==
    /\ frame.op = "NN.fit" /\ frame.pc = "epoch"
    /\ ~(frame.i < nn.epochs)
    /\ out' = [out EXCEPT !.last = Returned("NN.fit", [X |-> frame.X, y |-> frame.y], NoneVal)]
    /\ frame' = Idle
    /\ UNCHANGED <<lr, nn, num>>

\* ---- OneHiddenLayerNN.predict_prob / predict
NNPredictProb ==
    /\ frame = Idle
    /\ \E X \in PredictX :
         LET r == NN_predict_prob(nn, X)
         IN  /\ nn' = r[1]
             /\ out' = [out EXCEPT !.last = Returned("NN.predict_prob", [X |-> X], r[2])]
    /\ UNCHANGED <<lr, frame, num>>

NNPredict ==
    /\ frame = Idle
    /\ \E X \in PredictX :
         LET r == NN_predict(nn, X)
         IN  /\ nn' = r[1]
             /\ out' = [out EXCEPT !.last = Returned("NN.predict", [X |-> X], r[2])]
    /\ UNCHANGED <<lr, frame, num>>

Next ==
    \/ LRFitCall \/ LRFitStep \/ LRFitDiag \/ LRFitReturn
    \/ LRPredictProb \/ LRPredict
    \/ NNFitCall \/ NNEpochBegin \/ NNBatchStep \/ NNRemStep
    \/ NNFitDiag \/ NNFitReturn
    \/ NNPredictProb \/ NNPredict

Spec == Init /\ [][Next]_vars


\* =================================================================
\*      SpecNum: the arithmetic of OneHiddenLayerNN, relu on integers
\* =================================================================
\* A matrix is a sequence of rows, a row a sequence of integers.  With
\* integer inputs, relu activations and a learning rate alpha such that the
\* batch size divides 2 * alpha, every intermediate value of the code is an
\* integer that a float holds exactly, so the model computes what the code
\* computes.

\* Largest number of rows of the batch.
NumMaxRows == 2
\* Largest learning rate.
NumMaxAlpha == 3
\* Largest number of __forward_backward_prop steps in one run.
NumMaxSteps == 1

Rows(A) == Len(A)
Cols(A) == IF A = <<>> THEN 0 ELSE Len(A[1])

\* The sequence <<F(1), ..., F(n)>>, its elements evaluated.
MkSeq(n, F(_)) == SubSeq([k \in 1..n |-> F(k)], 1, n)

\* The rows x cols matrix of the elements F(r, c).
MkMat(rows, cols, F(_, _)) ==
    MkSeq(rows, LAMBDA r : MkSeq(cols, LAMBDA c : F(r, c)))

\* A.T
Transpose(A) == MkMat(Cols(A), Rows(A), LAMBDA c, r : A[r][c])

\* The sum of the elements of a sequence; F(1) + ... + F(n).
RECURSIVE SumSeq(_)
SumSeq(s) == IF s = <<>> THEN 0 ELSE Head(s) + SumSeq(Tail(s))
SumTo(n, F(_)) == SumSeq(MkSeq(n, F))

\* np.dot(A, B) of two matrices.
Dot(A, B) ==
    MkMat(Rows(A), Cols(B),
          LAMBDA r, c : SumTo(Rows(B), LAMBDA k : A[r][k] * B[k][c]))

\* A * B, A - B element by element; k * A; A / m (exact, see above).
Hadamard(A, B) == MkMat(Rows(A), Cols(A), LAMBDA r, c : A[r][c] * B[r][c])
MatSub(A, B) == MkMat(Rows(A), Cols(A), LAMBDA r, c : A[r][c] - B[r][c])
Scale(k, A) == MkMat(Rows(A), Cols(A), LAMBDA r, c : k * A[r][c])
DivBy(A, m) == MkMat(Rows(A), Cols(A), LAMBDA r, c : A[r][c] \div m)

\* __activation: relu is np.maximum(z, 0); a name other than the three the
\* code knows falls through every branch and yields None.  (tanh and sigmoid
\* leave the integers and are not evaluated here.)
activation(z, func_name) ==
    CASE func_name = "relu" ->
           MkMat(Rows(z), Cols(z), LAMBDA r, c : Max(z[r][c], 0))
      [] func_name \notin {"relu", "tanh", "sigmoid"} -> NoneVal

\* __d_activation, computed from the activation's output: for relu 1 where
\* the output is > 0 and 0 where it is <= 0.
d_activation(func_out, func_name) ==
    CASE func_name = "relu" ->
           MkMat(Rows(func_out), Cols(func_out),
                 LAMBDA r, c : IF func_out[r][c] > 0 THEN 1 ELSE 0)
      [] func_name \notin {"relu", "tanh", "sigmoid"} -> NoneVal

\* __add_bias on a matrix: np.concatenate((ones, X), axis=1).
add_bias_rows(X) == MkSeq(Rows(X), LAMBDA r : <<1>> \o X[r])

\* 2.0 * (a_o - a) * d_activation(a_o, out_func)
out_delta(self, a_o, a) ==
    Hadamard(Scale(2, MatSub(a_o, a)), d_activation(a_o, self.out_func))

\* __d_out: alpha * np.dot(a_h.T, delta) / a.shape[0]
d_out(self, a_h, a_o, a) ==
    DivBy(Scale(self.alpha, Dot(Transpose(a_h), out_delta(self, a_o, a))), Rows(a))

\* _d_hidden: alpha * np.dot(X.T, np.dot(delta, W_out[1:].T) * d_act(a_h)) / a.shape[0]
\* where W_out is read from self at the time of the call.
d_hidden(self, X, a_h, a_o, a) ==
    DivBy(Scale(self.alpha,
                Dot(Transpose(X),
                    Hadamard(Dot(out_delta(self, a_o, a), Transpose(Tail(self.W_out))),
                             d_activation(a_h, self.hidden_func)))),
          Rows(a))

\* The forward pass shared by __forward_backward_prop and predict_prob.
forward(self, X) ==
    LET z_h == Dot(X, self.W_h)
        a_h == activation(z_h, self.hidden_func)
        a_h_b == add_bias_rows(a_h)
        z_o == Dot(a_h_b, self.W_out)
        a_o == activation(z_o, self.out_func)
    IN  [a_h |-> a_h, a_h_b |-> a_h_b, a_o |-> a_o]

\* (variant) W_out is updated before d_hidden is computed.
forward_backward_prop_reordered(self, X, y) ==
    LET fw == forward(self, X)
        dO == d_out(self, fw.a_h_b, fw.a_o, y)
        self1 == [self EXCEPT !.W_out = MatSub(@, dO)]
        dH == d_hidden(self1, X, fw.a_h, fw.a_o, y)
        self2 == [self1 EXCEPT !.W_h = MatSub(@, dH)]
    IN  self2

\* __forward_backward_prop, in statement order: both gradients are computed
\* from self as it is on entry, then W_out and W_h are updated.
forward_backward_prop(self, X, y) ==
    LET fw == forward(self, X)
        dO == d_out(self, fw.a_h_b, fw.a_o, y)
        dH == d_hidden(self, X, fw.a_h, fw.a_o, y)
        self1 == [self EXCEPT !.W_out = MatSub(@, dO)]
        self2 == [self1 EXCEPT !.W_h = MatSub(@, dH)]
    IN  self2

\* predict_prob on matrices: the forward pass only.
predict_prob(self, X) == forward(self, X).a_o

\* The builtin max over the rows of a 2-D array: it keeps the first row and
\* takes a later one when `row > kept` is true.  That comparison is itself an
\* array, whose truth value is defined only when it has one element.
RECURSIVE MaxRow(_, _, _)
MaxRow(a, k, best) ==
    IF k > Len(a) THEN best
    ELSE MaxRow(a, k + 1, IF a[k][1] > best[1] THEN a[k] ELSE best)

py_max(a) ==
    IF Rows(a) = 0 THEN [raise |-> "ValueError"]
    ELSE IF Rows(a) >= 2 /\ Cols(a) # 1 THEN [raise |-> "ValueError"]
    ELSE [value |-> MaxRow(a, 2, a[1])]

\* np.where(max_value == a_o)[0]: max_value (one row) is compared with every
\* row of a_o element by element; the result lists, in row-major order, the
\* 0-based ROW number of every element that is equal.
RECURSIVE where_rows(_, _, _, _)
where_rows(max_value, a_o, r, c) ==
    IF r > Rows(a_o) THEN <<>>
    ELSE IF c > Cols(a_o) THEN where_rows(max_value, a_o, r + 1, 1)
    ELSE (IF a_o[r][c] = max_value[c] THEN <<r - 1>> ELSE <<>>)
         \o where_rows(max_value, a_o, r, c + 1)

\* predict: what it prints (max_index, max_value), or the exception raised.
predict(self, X) ==
    LET a_o == predict_prob(self, X)
        m == py_max(a_o)
    IN  IF "raise" \in DOMAIN m THEN m
        ELSE [max_index |-> where_rows(m.value, a_o, 1, 1),
              max_value |-> m.value]

\* ---- the inputs of SpecNum
NumWeights == {-1, 1}
Matrices(rows, cols, S) == [1..rows -> [1..cols -> S]]
\* Learning rates for which alpha * d_loss / m is exact for every batch size.
NumAlphas == {a \in 1..NumMaxAlpha : \A m \in 1..NumMaxRows : (2 * a) % m = 0}
\* Bias-augmented input rows <<1, x>> and one-hot target rows.
NumInputRows == {<<1, x>> : x \in {0, 1}}
NumTargetRows == {<<1, 0>>, <<0, 1>>}

NumSelf ==
    [W_h : Matrices(2, 1, NumWeights),
     W_out : Matrices(2, 2, NumWeights),
     alpha : NumAlphas,
     hidden_func : {"relu"},
     out_func : {"relu"}]

InitNum ==
    /\ lr = LR_init(0, "0.1")
    /\ nn = NN_init(1, 1, "relu", "relu", 0, "0.1")
    /\ frame = Idle
    /\ out = [last |-> [op |-> "new"], loss |-> <<>>]
    /\ \E m \in 1..NumMaxRows :
         num \in [pc : {"on"}, self : NumSelf,
                  X : [1..m -> NumInputRows], y : [1..m -> NumTargetRows],
                  steps : {0}, last : {[op |-> "new"]}]

\* One call of __forward_backward_prop(X, y); `before` keeps the instance as
\* it was on entry.
NumStep ==
    /\ num.pc = "on" /\ num.steps < NumMaxSteps
    /\ num' = [num EXCEPT !.self = forward_backward_prop(num.self, num.X, num.y),
                          !.steps = @ + 1,
                          !.last = [op |-> "fbp", before |-> num.self]]
    /\ UNCHANGED <<lr, nn, frame, out>>

NumPredictProb ==
    /\ num.pc = "on"
    /\ num' = [num EXCEPT !.last = [op |-> "predict_prob",
                                    ret |-> predict_prob(num.self, num.X)]]
    /\ UNCHANGED <<lr, nn, frame, out>>

NumPredict ==
    /\ num.pc = "on"
    /\ num' = [num EXCEPT !.last = [op |-> "predict",
                                    a_o |-> predict_prob(num.self, num.X),
                                    ret |-> predict(num.self, num.X)]]
    /\ UNCHANGED <<lr, nn, frame, out>>

NextNum == NumStep \/ NumPredictProb \/ NumPredict

SpecNum == InitNum /\ [][NextNum]_vars


\* =================================================================
\*                             Properties
\* =================================================================

\* The number of batches of the trace that hold row r.
RECURSIVE Takes(_, _)
Takes(trace, r) ==
    IF trace = <<>> THEN 0
    ELSE (IF \E k \in 1..Len(trace[1]) : trace[1][k] = r THEN 1 ELSE 0)
         + Takes(Tail(trace), r)

\* The rows of the trace, batch after batch.
RECURSIVE Flatten(_)
Flatten(trace) ==
    IF trace = <<>> THEN <<>> ELSE trace[1] \o Flatten(Tail(trace))

\* The rows <<lo, ..., hi - 1>>.
RowsFromTo(lo, hi) == [k \in 1..(hi - lo) |-> lo + k - 1]

\* An epoch of OneHiddenLayerNN.fit has run all its updates.
EpochDone ==
    /\ frame.op = "NN.fit"
    /\ \/ frame.pc = "diag"
       \/ frame.pc = "epoch" /\ frame.trace # <<>>

FitN == Len(frame.X.rows)

\* k updates from the same operands, run-length encoded.
RunOf(by, k) == IF k = 0 THEN <<>> ELSE <<[by |-> by, k |-> k]>>

\* ---------------------------------------------------------------- C1
\* C1: when n mod batch_size > 0, an epoch is floor(n/batch_size) updates on
\* the consecutive batches [j*b, (j+1)*b) followed by one update on exactly
\* the last n - b*floor(n/b) rows; every row is in exactly one update, and
\* the rows are visited in their original order.
C1_RemainderEpoch ==
    (EpochDone /\ FitN % nn.batch_size > 0) =>
        LET n == FitN
            b == nn.batch_size
            q == n \div b
        IN  /\ Len(frame.trace) = q + 1
            /\ \A j \in 1..q : frame.trace[j] = RowsFromTo((j - 1) * b, j * b)
            /\ frame.trace[q + 1] = RowsFromTo(b * q, n)
            /\ \A r \in 0..(n - 1) : Takes(frame.trace, r) = 1
            /\ Flatten(frame.trace) = PyRange(n)

\* An epoch of n = 3, batch_size = 2 is done: one full batch, then one row.
C1_Witness ==
    /\ EpochDone
    /\ FitN = 3 /\ nn.batch_size = 2
    /\ frame.trace = <<(<<0, 1>>), (<<2>>)>>

\* ---------------------------------------------------------------- C2
\* C2: when batch_size divides n (n >= 1), the remainder batch of every
\* epoch is the whole training set: all n rows, not none.
C2_ZeroRemainderIsFullSet ==
    (EpochDone /\ FitN % nn.batch_size = 0) =>
        /\ frame.batch_rem = 0
        /\ frame.trace[Len(frame.trace)] = PyRange(FitN)
        /\ Len(frame.trace[Len(frame.trace)]) = FitN

\* An epoch of n = 2, batch_size = 1 is done and its last batch is rows 0, 1.
C2_Witness ==
    /\ EpochDone
    /\ FitN = 2 /\ nn.batch_size = 1
    /\ frame.trace[Len(frame.trace)] = <<0, 1>>

\* ---------------------------------------------------------------- C3
\* C3 as stated: when batch_size divides n, the rows of the last full batch
\* are in exactly two updates of the epoch and the rows of every earlier
\* batch in exactly one.
C3_LastBatchTwiceOnly ==
    (EpochDone /\ FitN % nn.batch_size = 0) =>
        \A r \in 0..(FitN - 1) :
            Takes(frame.trace, r) = IF r >= FitN - nn.batch_size THEN 2 ELSE 1

\* C3 as the code has it: when batch_size divides n, the remainder step is an
\* update on the whole training set, so every row - of the last full batch
\* and of every earlier batch alike - is in exactly two updates of the epoch.
C3_EveryRowTwice ==
    (EpochDone /\ FitN % nn.batch_size = 0) =>
        /\ Len(frame.trace) = FitN \div nn.batch_size + 1
        /\ \A r \in 0..(FitN - 1) : Takes(frame.trace, r) = 2

\* An epoch of n = 3, batch_size = 1 is done: row 0, of the first batch, was
\* in two updates.
C3_Witness ==
    /\ EpochDone
    /\ FitN = 3 /\ nn.batch_size = 1
    /\ Takes(frame.trace, 0) = 2
    /\ Takes(frame.trace, 2) = 2

\* ---------------------------------------------------------------- C4
\* LogisticRegression.fit has returned (not raised) and no later fit has
\* begun.
LRFitted ==
    out.last.op = "LR.fit" /\ out.last.ret = NoneVal /\ frame.op # "LR.fit"

\* LogisticRegression.fit has ended by an exception and no later fit has
\* begun.
LRFitRaised ==
    out.last.op = "LR.fit" /\ out.last.ret # NoneVal /\ frame.op # "LR.fit"

\* C4: LogisticRegression.fit returns after exactly num_iters weight updates
\* (none when num_iters = 0), whatever the weights; a call that does not
\* return ends by the exception of its first update, never by stopping
\* early.
C4_ExactlyNumIters ==
    /\ LRFitted => Updates(lr.W) = lr.num_iters
    /\ LRFitRaised => (Updates(lr.W) = 0 /\ lr.num_iters >= 1)

\* fit has returned from a run longer than the diagnostic period.
C4_Witness ==
    /\ LRFitted /\ frame = Idle
    /\ lr.num_iters = LR_LOSS_EVERY + 1
    /\ Updates(lr.W) = LR_LOSS_EVERY + 1

\* ---------------------------------------------------------------- C5
\* C5: fit starts from scratch.  LogisticRegression: before the first
\* iteration W is the zero vector of length features + 1, and on return the
\* weights are those of num_iters updates of that zero vector by this call's
\* X and y, whatever was fitted before (the zero vector itself when the
\* call raised).  OneHiddenLayerNN: before the first
\* epoch W_h and W_out are fresh draws of the shapes of this call, with no
\* update applied.
C5_FitFromScratch ==
    /\ (frame.op = "LR.fit" /\ frame.pc = "for" /\ frame.i = 0) =>
          lr.W = zeros(<<frame.X.cols>>)
    /\ LRFitted =>
          lr.W = [shape |-> <<out.last.args.X.cols>>,
                  init |-> "zeros",
                  steps |-> RunOf([X |-> out.last.args.X.id,
                                   y |-> out.last.args.y.id,
                                   alpha |-> lr.alpha], lr.num_iters)]
    /\ LRFitRaised => lr.W = zeros(<<out.last.args.X.cols>>)
    /\ (frame.op = "NN.fit" /\ frame.pc = "epoch" /\ frame.i = 0) =>
          /\ nn.W_h.steps = <<>> /\ nn.W_out.steps = <<>>
          /\ nn.W_h.init[1] = "randn" /\ nn.W_out.init[1] = "randn"
          /\ nn.W_h.shape = <<frame.X.cols, nn.nn_size>>
          /\ nn.W_out.shape = <<nn.nn_size + 1, frame.y.cols>>

\* A later LogisticRegression.fit is at its start, after an earlier one
\* that left updated weights, on an instance of OneHiddenLayerNN that was
\* fitted.
C5_Witness ==
    /\ frame.op = "LR.fit" /\ frame.pc = "for" /\ frame.i = 0
    /\ out.last.op = "LR.fit" /\ out.last.warm
    /\ lr.num_iters >= 1
    /\ lr.W = zeros(<<frame.X.cols>>)
    /\ nn.W_h # NoneVal

\* ---------------------------------------------------------------- C6
\* C6: predict_prob and predict of both classes change nothing of the
\* instances; the weights change only during fit; and predict_prob called
\* again on the same input returns the same value.
C6_PredictIsPure ==
    [][ /\ (frame = Idle /\ frame' = Idle) => (lr' = lr /\ nn' = nn)
        /\ (lr' # lr) => (frame.op = "LR.fit" \/ frame'.op = "LR.fit")
        /\ (nn' # nn) => (frame.op = "NN.fit" \/ frame'.op = "NN.fit")
        /\ ( /\ frame = Idle /\ frame' = Idle
             /\ out.last.op \in {"LR.predict_prob", "NN.predict_prob"}
             /\ out'.last.op = out.last.op
             /\ out'.last.args = out.last.args )
           => out'.last.ret = out.last.ret
      ]_vars

\* predict_prob of a trained OneHiddenLayerNN has returned a value.
C6_Witness ==
    /\ frame = Idle
    /\ out.last.op = "NN.predict_prob"
    /\ "f" \in DOMAIN out.last.ret
    /\ Updates(nn.W_h) > 0
    /\ Updates(lr.W) > 0

\* ---------------------------------------------------------------- C7
\* Column k holds the one maximum of the row.
IsArgmax(row, k) == \A c \in 1..Len(row) : c # k => row[c] < row[k]

\* C7 as stated: for an input row whose output vector (of at least two
\* classes) has its maximum at column k, predict reports the class index k.
C7_ReportsArgmaxClass ==
    (num.pc = "on" /\ num.last.op = "predict" /\ Rows(num.X) = 1) =>
        \A k \in 1..Cols(num.last.a_o) :
            IsArgmax(num.last.a_o[1], k) =>
                /\ "max_index" \in DOMAIN num.last.ret
                /\ num.last.ret.max_index = <<k - 1>>

\* ---------------------------------------------------------------- C8
\* The iterations i of range(count) with i % period = 0, in order.
LossIterations(count, period) ==
    SelectSeq(PyRange(count), LAMBDA i : i % period = 0)

NNFitted == out.last.op = "NN.fit" /\ out.last.ret = NoneVal /\ frame = Idle

\* C8: the loss diagnostic runs on exactly the iterations (epochs) i with
\* i % 100 = 0, it leaves the instance and the locals of the loop as they
\* are, and the weights on return are those of the updates alone.
C8_DiagnosticIsInert ==
    /\ [] /\ (frame.op \in {"LR.fit", "NN.fit"} /\ frame.pc = "diag") =>
                 /\ frame.i % 100 = 0
                 /\ out.loss # <<>> => out.loss[Len(out.loss)] < frame.i
          /\ (LRFitted /\ frame = Idle) =>
                 /\ out.loss = LossIterations(lr.num_iters, 100)
                 /\ Updates(lr.W) = lr.num_iters
          /\ NNFitted =>
                 /\ out.loss = LossIterations(nn.epochs, 100)
                 /\ Updates(nn.W_h) =
                      nn.epochs * (Len(out.last.args.X.rows) \div nn.batch_size + 1)
                 /\ Updates(nn.W_out) = Updates(nn.W_h)
    /\ [][ /\ (frame.op \in {"LR.fit", "NN.fit"} /\ frame.pc = "diag") =>
                 /\ lr' = lr /\ nn' = nn
                 /\ frame' = [frame EXCEPT
                                 !.pc = IF frame.op = "LR.fit" THEN "for" ELSE "epoch",
                                 !.i = @ + 1]
                 /\ out'.loss = Append(out.loss, frame.i)
           /\ (frame.op = "LR.fit" /\ frame.pc = "for" /\ frame'.op = "LR.fit") =>
                 (frame'.pc = "diag" <=> frame.i % 100 = 0)
           /\ (frame.op = "NN.fit" /\ frame.pc = "batch" /\ frame'.pc # "batch") =>
                 (frame'.pc = "diag" <=> frame.i % 100 = 0)
         ]_vars

\* OneHiddenLayerNN.fit emits the loss of epoch 100, its second emission,
\* on an instance of LogisticRegression whose fit emitted at 0 and 100.
C8_Witness ==
    /\ frame.op = "NN.fit" /\ frame.pc = "diag" /\ frame.i = 100
    /\ out.loss = <<0>>
    /\ Updates(lr.W) = 101

\* ---------------------------------------------------------------- C9
\* C9: one step of __forward_backward_prop computes d_out and d_hidden from
\* the weights it was entered with (d_hidden from W_out[1:] as it was before
\* W_out is updated), then subtracts each from its matrix once; nothing else
\* of the instance changes.
C9_GradientsFromEntryWeights ==
    (num.pc = "on" /\ num.last.op = "fbp") =>
        LET b == num.last.before
            fw == forward(b, num.X)
        IN  /\ num.self.W_out = MatSub(b.W_out, d_out(b, fw.a_h_b, fw.a_o, num.y))
            /\ num.self.W_h = MatSub(b.W_h, d_hidden(b, num.X, fw.a_h, fw.a_o, num.y))
            /\ num.self = [b EXCEPT !.W_out = num.self.W_out, !.W_h = num.self.W_h]

\* A step has changed both matrices, and d_hidden computed from the updated
\* W_out would have been another matrix.
C9_Witness ==
    /\ num.pc = "on" /\ num.last.op = "fbp"
    /\ LET b == num.last.before
           fw == forward(b, num.X)
       IN  /\ num.self.W_out # b.W_out
           /\ num.self.W_h # b.W_h
           /\ d_hidden([b EXCEPT !.W_out = num.self.W_out], num.X, fw.a_h, fw.a_o, num.y)
                # d_hidden(b, num.X, fw.a_h, fw.a_o, num.y)

\* --------------------------------------------------------------- C10
\* C10: for n >= 1 and batch_size >= 1 every batch handed to
\* __forward_backward_prop, full or remainder, holds at least one row and at
\* most n, so the gradients never divide by a batch count of zero.
C10_BatchNeverEmpty ==
    (frame.op = "NN.fit") =>
        \A k \in 1..Len(frame.trace) :
            /\ Len(frame.trace[k]) >= 1
            /\ Len(frame.trace[k]) <= FitN

\* An epoch is done for n < batch_size: its one batch is the one row.
C10_Witness ==
    /\ EpochDone
    /\ FitN = 1 /\ nn.batch_size = 2
    /\ frame.batch_rem = 1
    /\ frame.trace = <<(<<0>>)>>

====
